---- MODULE Spec2Model ----
(***************************************************************************)
(* Model of the endpoint-dispatch and format-decoding layer of simul:     *)
(* the FormatHandler family (simul/formats.py), the Endpoint descriptor   *)
(* (simul/endpoints.py) and the asynchronous generator Requestor.request  *)
(* (simul/session.py).  Spec is the life of a generator made by           *)
(* Requestor.request, for every kind of Endpoint; SpecHeaders is the same *)
(* for a caller that passes headers; SpecShared is two generators made    *)
(* through one Endpoint whose fmt the consumer reassigns, interleaved;    *)
(* SpecReassign is one generator whose Endpoint has one field reassigned; *)
(* SpecCallOp is the call operator of the four descriptor classes;        *)
(* SpecHandle, SpecUrl and SpecRoundTrip are handle, urljoin and parse    *)
(* called directly; SpecClient is the construction of a Client and its    *)
(* methods that take as_pgn, SpecSeek is Board.seek (simul/clients.py);   *)
(* SpecConvert is Model.convert (simul/models.py).                        *)
(*                                                                         *)
(* Python values are records of one shape, told apart by the tag t: a str *)
(* keeps its characters (one-character strings) in s, an int its value in *)
(* n, a list its elements in items, a dict its mapping in d, an           *)
(* httpx.Response its status code in n and its body text in s.  A Python  *)
(* call either returns or raises: Ok(v) / Raise(exc).                     *)
(***************************************************************************)
EXTENDS Integers, Sequences, FiniteSets, TLC

(***************************************************************************)
(* Bounds of the model.                                                    *)
(***************************************************************************)
MaxLines == 2

(***************************************************************************)
(* Python values and call outcomes.                                        *)
(***************************************************************************)
EmptyDict == [x \in {} |-> 0]

Blank == [t |-> "", n |-> 0, s |-> <<>>, items |-> <<>>, d |-> EmptyDict, by |-> ""]

PyNone == [Blank EXCEPT !.t = "null"]
PyStr(chars) == [Blank EXCEPT !.t = "str", !.s = chars]
PyInt(n) == [Blank EXCEPT !.t = "int", !.n = n]
PyBool(b) == [Blank EXCEPT !.t = "bool", !.n = IF b THEN 1 ELSE 0]
PyList(items) == [Blank EXCEPT !.t = "list", !.items = items]
PyDict(f) == [Blank EXCEPT !.t = "dict", !.d = f]
Response(status, chars) == [Blank EXCEPT !.t = "Response", !.n = status, !.s = chars]

Ok(v) == [ok |-> TRUE, val |-> v, exc |-> ""]
Raise(e) == [ok |-> FALSE, val |-> PyNone, exc |-> e]

(***************************************************************************)
(* Converters.  None is Python's None; noop names utils.noop, whose body   *)
(* is utils_noop; every other converter f is an uninterpreted callable     *)
(* whose application to x is a value tagged "converted" that records f and *)
(* x, distinct from x.                                                     *)
(***************************************************************************)
None == "None"

noop == "noop"

utils_noop_drop(arg) == PyNone

utils_noop(arg) == arg

CallConverter(converter, x) ==
    IF converter = None THEN Raise("TypeError")
    ELSE IF converter = noop THEN Ok(utils_noop(x))
    ELSE Ok([Blank EXCEPT !.t = "converted", !.by = converter, !.items = <<x>>])

(***************************************************************************)
(* json.loads, restricted to: blanks, null, true, false, unsigned         *)
(* integers, strings without escapes, arrays and objects.  Positions are  *)
(* 1-based; a scan returns [ok, val, end] with end the position after the *)
(* value.                                                                  *)
(***************************************************************************)
DigitChars == {"0", "1", "2", "3", "4", "5", "6", "7", "8", "9"}

DigitVal(ch) ==
    CASE ch = "0" -> 0 [] ch = "1" -> 1 [] ch = "2" -> 2 [] ch = "3" -> 3
      [] ch = "4" -> 4 [] ch = "5" -> 5 [] ch = "6" -> 6 [] ch = "7" -> 7
      [] ch = "8" -> 8 [] ch = "9" -> 9

ScanFail == [ok |-> FALSE, val |-> PyNone, end |-> 0]

ScanOk(v, e) == [ok |-> TRUE, val |-> v, end |-> e]

RECURSIVE SkipWs(_, _)
SkipWs(s, i) == IF i <= Len(s) /\ s[i] = " " THEN SkipWs(s, i + 1) ELSE i

MatchAt(s, i, lit) ==
    /\ i + Len(lit) - 1 <= Len(s)
    /\ SubSeq(s, i, i + Len(lit) - 1) = lit

RECURSIVE ScanDigits(_, _, _)
ScanDigits(s, i, acc) ==
    IF i <= Len(s) /\ s[i] \in DigitChars
    THEN ScanDigits(s, i + 1, 10 * acc + DigitVal(s[i]))
    ELSE ScanOk(PyInt(acc), i)

ScanNumber(s, i) ==
    IF s[i] = "0" THEN ScanOk(PyInt(0), i + 1) ELSE ScanDigits(s, i, 0)

RECURSIVE ScanString(_, _, _)
ScanString(s, i, acc) ==
    IF i > Len(s) THEN ScanFail
    ELSE IF s[i] = "\"" THEN ScanOk(PyStr(acc), i + 1)
    ELSE ScanString(s, i + 1, Append(acc, s[i]))

Put(f, k, v) == [x \in (DOMAIN f) \cup {k} |-> IF x = k THEN v ELSE f[x]]

RECURSIVE ScanOnce(_, _)
RECURSIVE ScanArray(_, _, _)
RECURSIVE ScanObject(_, _, _)
ScanOnce(s, i) ==
    IF i > Len(s) THEN ScanFail
    ELSE IF s[i] = "\"" THEN ScanString(s, i + 1, <<>>)
    ELSE IF s[i] = "{" THEN
        LET j == SkipWs(s, i + 1) IN
        IF j <= Len(s) /\ s[j] = "}" THEN ScanOk(PyDict(EmptyDict), j + 1)
        ELSE ScanObject(s, j, EmptyDict)
    ELSE IF s[i] = "[" THEN
        LET j == SkipWs(s, i + 1) IN
        IF j <= Len(s) /\ s[j] = "]" THEN ScanOk(PyList(<<>>), j + 1)
        ELSE ScanArray(s, j, <<>>)
    ELSE IF MatchAt(s, i, <<"n", "u", "l", "l">>) THEN ScanOk(PyNone, i + 4)
    ELSE IF MatchAt(s, i, <<"t", "r", "u", "e">>) THEN ScanOk(PyBool(TRUE), i + 4)
    ELSE IF MatchAt(s, i, <<"f", "a", "l", "s", "e">>) THEN ScanOk(PyBool(FALSE), i + 5)
    ELSE IF s[i] \in DigitChars THEN ScanNumber(s, i)
    ELSE ScanFail

ScanArray(s, i, acc) ==
    LET r == ScanOnce(s, i) IN
    IF ~r.ok THEN ScanFail
    ELSE LET j == SkipWs(s, r.end)
             items == Append(acc, r.val) IN
         IF j > Len(s) THEN ScanFail
         ELSE IF s[j] = "]" THEN ScanOk(PyList(items), j + 1)
         ELSE IF s[j] = "," THEN ScanArray(s, SkipWs(s, j + 1), items)
         ELSE ScanFail

ScanObject(s, i, acc) ==
    IF i > Len(s) \/ s[i] # "\"" THEN ScanFail
    ELSE LET k == ScanString(s, i + 1, <<>>) IN
         IF ~k.ok THEN ScanFail
         ELSE LET c == SkipWs(s, k.end) IN
              IF c > Len(s) \/ s[c] # ":" THEN ScanFail
              ELSE LET r == ScanOnce(s, SkipWs(s, c + 1)) IN
                   IF ~r.ok THEN ScanFail
                   ELSE LET j == SkipWs(s, r.end)
                            d == Put(acc, k.val.s, r.val) IN
                        IF j > Len(s) THEN ScanFail
                        ELSE IF s[j] = "}" THEN ScanOk(PyDict(d), j + 1)
                        ELSE IF s[j] = "," THEN ScanObject(s, SkipWs(s, j + 1), d)
                        ELSE ScanFail

json_loads(content) ==
    IF content.t # "str" THEN Raise("TypeError")
    ELSE LET s == content.s
             r == ScanOnce(s, SkipWs(s, 1)) IN
         IF ~r.ok THEN Raise("JSONDecodeError")
         ELSE IF SkipWs(s, r.end) # Len(s) + 1 THEN Raise("JSONDecodeError")
         ELSE Ok(r.val)

(***************************************************************************)
(* simul/formats.py.  A handler object is its class, its mime type and its *)
(* headers mapping; NoFmt stands for None where a handler is expected.     *)
(***************************************************************************)
FormatHandler_init(cls, mime_type) ==
    [cls |-> cls, mime_type |-> mime_type, headers |-> [h \in {"Accept"} |-> mime_type]]

NoFmt == [cls |-> "NoneType", mime_type |-> "", headers |-> [h \in {} |-> ""]]

TEXT == FormatHandler_init("TextHandler", "text/plain")
JSON == FormatHandler_init("JsonHandler", "application/json")
LIJSON == FormatHandler_init("JsonHandler", "application/vnd.lichess.v3+json")
PGN == FormatHandler_init("PgnHandler", "application/x-chess-pgn")

Handlers == {TEXT, JSON, LIJSON, PGN}

FormatHandler_parse(content) == Ok(content)

JsonHandler_parse(content) == json_loads(content)

parse(h, content) ==
    IF h.cls = "JsonHandler" THEN JsonHandler_parse(content)
    ELSE FormatHandler_parse(content)

(***************************************************************************)
(* A call handle(content, ...) passes the converter positionally (pos), by *)
(* keyword (kw), both ways or not at all; Absent marks the way not used.   *)
(* Binding def handle(self, content, converter=utils.noop) fails when the  *)
(* parameter receives a value both ways.                                   *)
(***************************************************************************)
Absent == "<absent>"

FormatHandler_handle(h, content, pos, kw) ==
    IF pos # Absent /\ kw # Absent THEN Raise("TypeError")
    ELSE LET converter == IF pos # Absent THEN pos
                          ELSE IF kw # Absent THEN kw ELSE noop
             parsed == parse(h, content) IN
         IF parsed.ok THEN CallConverter(converter, parsed.val) ELSE parsed

PgnHandler_handle(h, content, pos, kw) ==
    FormatHandler_handle(h, content, pos, noop)

handle(h, content, pos, kw) ==
    IF h.cls = "PgnHandler" THEN PgnHandler_handle(h, content, pos, kw)
    ELSE FormatHandler_handle(h, content, pos, kw)

(***************************************************************************)
(* simul/endpoints.py: the Endpoint dataclass.                             *)
(***************************************************************************)
Endpoint(path, stream, method, fmt, converter) ==
    [path |-> path, stream |-> stream, method |-> method, fmt |-> fmt,
     converter |-> converter]

(***************************************************************************)
(* urllib.parse.urljoin on tokenised URLs: the first token of an absolute *)
(* URL is its scheme and host, the path follows as "/" and segment tokens. *)
(***************************************************************************)
IsOrigin(tok) == tok \in {"https://lichess.org", "https://example.org"}

RECURSIVE UpToLastSlash(_)
UpToLastSlash(pathToks) ==
    IF pathToks = <<>> THEN <<"/">>
    ELSE IF pathToks[Len(pathToks)] = "/" THEN pathToks
    ELSE UpToLastSlash(SubSeq(pathToks, 1, Len(pathToks) - 1))

urljoin_concat(base, url) == base \o url

urljoin(base, url) ==
    IF url = <<>> THEN base
    ELSE IF IsOrigin(Head(url)) THEN url
    ELSE IF Head(url) = "/" THEN <<Head(base)>> \o url
    ELSE <<Head(base)>> \o UpToLastSlash(Tail(base)) \o url

(***************************************************************************)
(* Inputs of the request lifecycle.                                        *)
(***************************************************************************)
EmptyLine == PyStr(<<>>)
NumberLine == PyStr(<<"1">>)
ListLine == PyStr(<<"[", "1", "]">>)
MoveLine == PyStr(<<"e", "4">>)

Lines == {EmptyLine, NumberLine, MoveLine}

Statuses == {200, 300, 404}

BaseUrls == {<<"https://lichess.org", "/">>}

EndpointPaths == {<<"api", "/", "account">>}

EndpointFormats == {NoFmt, TEXT, LIJSON, PGN}

DefaultFormats == {JSON}

Endpoints ==
    {Endpoint(p, st, m, f, cv) :
        p \in EndpointPaths, st \in BOOLEAN, m \in {"GET", "POST"},
        f \in EndpointFormats, cv \in {None, "f"}}

Calls == {1, 2}

Tokens == {"token"}

NoHeaders == [h \in {} |-> ""]

CallerKwargs ==
    {[headers |-> NoHeaders], [headers |-> [h \in {"X-Requested-With"} |-> "simul"]]}

(***************************************************************************)
(* State.  requestor is the shared Requestor and ep the Endpoint object   *)
(* the calls are made with; every other variable maps a call of           *)
(* Requestor.request to the state of its generator; kwargs holds the       *)
(* keyword arguments the consumer passes to its calls and consumer the     *)
(* consumer's own course: the number of calls it makes, the name it has    *)
(* assigned to ep.fmt ("" while it has assigned none), the exception that  *)
(* ended it, the value ep.fmt had before the assignment and the set of     *)
(* calls that had made their first pull by then (and, where a field other  *)
(* than fmt may be assigned, the field's name and the Endpoint's fields as *)
(* they were before the assignment, and the number of lines each call had  *)
(* handled by then):                                                       *)
(*   pc         "unused", "created" (generator object made, not started),  *)
(*              "awaiting_stream" (line 54), "awaiting_line" (line 56),    *)
(*              "yield_line" (line 57), "awaiting_response" (line 59),     *)
(*              "yield_single" (line 61), "finished"                       *)
(*   fmt, headers, url   the locals of lines 49-51; headers is             *)
(*              kwargs['headers'] after line 50                            *)
(*   sent       the HTTP requests the call has issued: their number and    *)
(*              the method, URL and headers of the latest                  *)
(*   conn       the call's HTTP connection: "none", "open", "closed"       *)
(*   status     status code of the response received, 0 before             *)
(*   delivered  the lines aiter_lines has produced                         *)
(*   handled    the contents handle was called with                        *)
(*   yielded    the values the consumer received                           *)
(*   exc        the exception that ended the generator, "" while it runs   *)
(*   stopped    the consumer has stopped pulling                           *)
(*   afterEnd   what an anext() made after the generator finished raised,  *)
(*              "" while there was none                                    *)
(*                                                                         *)
(* hcall and hresult hold one direct call of a handler's handle method and *)
(* its outcome; they are used by SpecHandle only.  ucall and uresult hold  *)
(* one call of urljoin and its result; they are used by SpecUrl only.      *)
(* pcall and presult hold one parse of the serialization of a value by the *)
(* handler imported from simul.formats under a name, and its outcome; they *)
(* are used by SpecRoundTrip only.                                         *)
(*                                                                         *)
(* op holds one use of an Endpoint's call operator (SpecCallOp): the class *)
(* of the descriptor ("" when the consumer calls Requestor.request         *)
(* itself), how far `ep(requestor)(...)` has come ("none", "pending" while *)
(* the coroutine awaits anext, "value", "raise", or "generator" when the   *)
(* generator itself was returned), the call of Requestor.request it made,  *)
(* and the value returned or the exception raised.                         *)
(*                                                                         *)
(* conv holds one call of a model type's convert (SpecConvert): the type,  *)
(* the argument (a reference to a document, or a list of references), the  *)
(* documents as they were when the call was made and as they are after it  *)
(* (an object's identity is its index), the result, and the log of the     *)
(* converter applications as <<reference, field>> pairs.                   *)
(*                                                                         *)
(* cargs, heap and objs hold the construction of one Client (SpecClient):  *)
(* the arguments of Client(...), the Requestor objects created so far (an  *)
(* object's identity is its index in heap), and for the Client and each of *)
(* its namespaces whether it has been constructed, the index of its _r and *)
(* its pgn_as_default attribute.  mcall holds the latest call of a client  *)
(* method that takes as_pgn: the method, the as_pgn passed ("omitted" when *)
(* none), the name of the format its Endpoint is built with and the        *)
(* exception importing that name raised.   seek holds one call of          *)
(* client.board.seek (SpecSeek): its arguments, the payload it built, the  *)
(* timeout keyword it passed to the request ("absent" when none), and how  *)
(* it ended ("returned" or "raised" with the exception).                   *)
(***************************************************************************)
VARIABLES requestor, kwargs, consumer, ep, pc, fmt, headers, url, sent, conn, status,
          delivered, handled, yielded, exc, stopped, afterEnd, hcall, hresult,
          ucall, uresult, pcall, presult, op, conv, cargs, heap, objs, mcall, seek

reqVars == <<requestor, kwargs, consumer, ep, pc, fmt, headers, url, sent, conn, status,
             delivered, handled, yielded, exc, stopped, afterEnd>>

clientVars == <<cargs, heap, objs, mcall, seek>>

fnVars == <<hcall, hresult, ucall, uresult, pcall, presult, op, conv, clientVars>>

vars == <<reqVars, fnVars>>

NoCall == [called |-> FALSE, h |-> NoFmt, content |-> PyNone, pos |-> Absent,
           kw |-> Absent]

NoJoin == [called |-> FALSE, base |-> <<>>, url |-> <<>>]

NoParse == [called |-> FALSE, name |-> "", x |-> PyNone]

NoOp == [cls |-> "", kind |-> "none", c |-> 0, val |-> PyNone, exc |-> ""]

NoConv ==
    [called |-> FALSE, cls |-> "", arg |-> [kind |-> "dict", refs |-> <<>>],
     before |-> <<>>, after |-> <<>>, result |-> [kind |-> "dict", refs |-> <<>>],
     log |-> <<>>]

TokenSession_init(token) ==
    [token |-> token, headers |-> [h \in {"Authorization"} |-> "Bearer " \o token]]

Requestor_init(session, base_url, default_fmt) ==
    [session |-> session, base_url |-> base_url, default_fmt |-> default_fmt]

NoRequest == [n |-> 0, method |-> "", url |-> <<>>, headers |-> NoHeaders]

Consumer(calls) ==
    [calls |-> calls, reassigned |-> "", exc |-> "", was |-> NoFmt, after |-> {},
     old |-> Endpoint(<<>>, FALSE, "", NoFmt, None), linesBefore |-> <<0, 0>>]

ClientOrder ==
    <<"client", "account", "users", "teams", "games", "challenges", "board",
      "bots", "tournaments", "broadcasts", "simuls", "studies">>

OwnerNames == {ClientOrder[i] : i \in DOMAIN ClientOrder}

NoObject == [made |-> FALSE, r |-> 0, pgn_as_default |-> "absent"]

NoMethodCall ==
    [called |-> FALSE, owner |-> "", name |-> "", as_pgn |-> "", fmt |-> "", exc |-> ""]

NoRange == [kind |-> "None", low |-> 0, high |-> 0, s |-> <<>>]

NoSeek ==
    [called |-> FALSE, time |-> 0, increment |-> 0, rated |-> FALSE, variant |-> "",
     color |-> "", rating_range |-> NoRange,
     payload |-> [rated |-> "", time |-> 0, increment |-> 0, variant |-> "", color |-> "",
                  ratingRange |-> <<>>],
     timeout |-> "absent", state |-> "idle", exc |-> ""]

NoClient ==
    /\ cargs = [session |-> TokenSession_init("token"), base_url |-> <<>>,
                pgn_as_default |-> FALSE]
    /\ heap = <<>>
    /\ objs = [o \in OwnerNames |-> NoObject]
    /\ mcall = NoMethodCall
    /\ seek = NoSeek

InitCalls ==
    /\ pc = [c \in Calls |-> "unused"]
    /\ fmt = [c \in Calls |-> NoFmt]
    /\ headers = [c \in Calls |-> NoFmt.headers]
    /\ url = [c \in Calls |-> <<>>]
    /\ sent = [c \in Calls |-> NoRequest]
    /\ conn = [c \in Calls |-> "none"]
    /\ status = [c \in Calls |-> 0]
    /\ delivered = [c \in Calls |-> <<>>]
    /\ handled = [c \in Calls |-> <<>>]
    /\ yielded = [c \in Calls |-> <<>>]
    /\ exc = [c \in Calls |-> ""]
    /\ stopped = [c \in Calls |-> FALSE]
    /\ afterEnd = [c \in Calls |-> ""]

Init ==
    /\ requestor \in {Requestor_init(TokenSession_init(t), b, f) :
                         t \in Tokens, b \in BaseUrls, f \in DefaultFormats}
    /\ kwargs = [headers |-> NoHeaders]
    /\ consumer = Consumer(1)
    /\ ep \in Endpoints
    /\ InitCalls
    /\ hcall = NoCall
    /\ hresult = Ok(PyNone)
    /\ ucall = NoJoin
    /\ uresult = <<>>
    /\ pcall = NoParse
    /\ presult = Ok(PyNone)
    /\ op = NoOp
    /\ conv = NoConv
    /\ NoClient

(***************************************************************************)
(* Python's `a or b` for a handler and for a converter.                   *)
(***************************************************************************)
FmtOr_default(a, b) == b

FmtOr(a, b) == IF a.cls # "NoneType" THEN a ELSE b

ConverterOr(a, b) == IF a # None THEN a ELSE b

(***************************************************************************)
(* httpx: Response.raise_for_status raises unless is_success; leaving the *)
(* `async with session.stream(...)` block closes the streamed response.   *)
(***************************************************************************)
is_success_below_400(code) == code < 400

is_success(code) == 200 <= code /\ code <= 299

AsyncWithExit_leak(c) == "open"

AsyncWithExit(c) == "closed"

(***************************************************************************)
(* httpx: a request's headers are the session's headers updated with the   *)
(* headers passed for the call (AsyncClient.build_request); session.stream *)
(* and session.request issue one HTTP request.                             *)
(***************************************************************************)
merge_headers(base, over) ==
    [k \in DOMAIN base \cup DOMAIN over |->
        IF k \in DOMAIN over THEN over[k] ELSE base[k]]

session_send_twice(prev, method, u, h) ==
    [n |-> prev.n + 2, method |-> method, url |-> u,
     headers |-> merge_headers(requestor.session.headers, h)]

session_send(prev, method, u, h) ==
    [n |-> prev.n + 1, method |-> method, url |-> u,
     headers |-> merge_headers(requestor.session.headers, h)]

(***************************************************************************)
(* httpx: build_request merges into a new Headers object                   *)
(* (`Headers(self.headers)` updated with the call's headers); the          *)
(* session's own headers and the mapping passed for the call are left as   *)
(* they are.                                                               *)
(***************************************************************************)
session_after_send_updated(session, h) ==
    [session EXCEPT !.headers = merge_headers(@, h)]

session_after_send(session, h) == session

(***************************************************************************)
(* requestor.request(ep): calling the async generator function creates the *)
(* generator object; no line of its body runs.                             *)
(***************************************************************************)
generator_created_eager(prev) == [prev EXCEPT !.n = 1]

generator_created(prev) == prev

Request(c) ==
    /\ consumer.exc = ""
    /\ c <= consumer.calls
    /\ pc[c] = "unused"
    /\ \A d \in Calls : d < c => pc[d] # "unused"
    /\ pc' = [pc EXCEPT ![c] = "created"]
    /\ sent' = [sent EXCEPT ![c] = generator_created(@)]
    /\ UNCHANGED <<requestor, kwargs, consumer, ep, fmt, headers, url, conn, status, delivered,
                   handled, yielded, exc, stopped>>
    /\ UNCHANGED <<afterEnd, fnVars>>

(***************************************************************************)
(* First anext(): lines 49-53 run up to the first await.                   *)
(***************************************************************************)
FirstPull(c) ==
    /\ pc[c] = "created"
    /\ consumer.exc = ""
    /\ ~stopped[c]
    /\ LET f == FmtOr(ep.fmt, requestor.default_fmt) IN
        /\ fmt' = [fmt EXCEPT ![c] = f]
        /\ headers' = [headers EXCEPT ![c] = f.headers]
    /\ LET u == urljoin(requestor.base_url, ep.path) IN
        /\ url' = [url EXCEPT ![c] = u]
        /\ sent' = [sent EXCEPT ![c] = session_send(@, ep.method, u, headers'[c])]
    /\ requestor' = [requestor EXCEPT !.session = session_after_send(@, headers'[c])]
    /\ pc' = [pc EXCEPT ![c] = IF ep.stream THEN "awaiting_stream"
                                ELSE "awaiting_response"]
    /\ UNCHANGED <<kwargs, consumer, ep, conn, status, delivered, handled, yielded,
                   exc, stopped>>
    /\ UNCHANGED <<afterEnd, fnVars>>

(***************************************************************************)
(* Lines 54-55: the streamed response arrives; raise_for_status.           *)
(***************************************************************************)
StreamOpened(c, code) ==
    /\ pc[c] = "awaiting_stream"
    /\ status' = [status EXCEPT ![c] = code]
    /\ IF is_success(code)
       THEN /\ conn' = [conn EXCEPT ![c] = "open"]
            /\ pc' = [pc EXCEPT ![c] = "awaiting_line"]
            /\ exc' = exc
       ELSE /\ conn' = [conn EXCEPT ![c] = AsyncWithExit(c)]
            /\ pc' = [pc EXCEPT ![c] = "finished"]
            /\ exc' = [exc EXCEPT ![c] = "HTTPStatusError"]
    /\ UNCHANGED <<requestor, kwargs, consumer, ep, fmt, headers, url, delivered, handled,
                   yielded, stopped>>
    /\ UNCHANGED <<sent, afterEnd, fnVars>>

(***************************************************************************)
(* Lines 56-57: aiter_lines produces a line; fmt.handle(line) is yielded,  *)
(* or its exception leaves the async with block and ends the generator.   *)
(***************************************************************************)
HandleLine_stale(c, line) ==
    handle(fmt[c], IF delivered[c] = <<>> THEN line ELSE delivered[c][1], Absent, Absent)

HandleLine_swallow(c, line) ==
    LET r == handle(fmt[c], line, Absent, Absent) IN
    IF r.ok THEN r ELSE Ok(PyNone)

HandleLine_latest(c, line) ==
    handle(IF ep.fmt.cls # "NoneType" THEN ep.fmt ELSE requestor.default_fmt,
           line, Absent, Absent)

HandleLine(c, line) == handle(fmt[c], line, Absent, Absent)

LineArrives(c, line) ==
    /\ pc[c] = "awaiting_line"
    /\ Len(delivered[c]) < MaxLines
    /\ delivered' = [delivered EXCEPT ![c] = Append(@, line)]
    /\ handled' = [handled EXCEPT ![c] = Append(@, line)]
    /\ LET r == HandleLine(c, line) IN
       IF r.ok
       THEN /\ yielded' = [yielded EXCEPT ![c] = Append(@, r.val)]
            /\ pc' = [pc EXCEPT ![c] = "yield_line"]
            /\ UNCHANGED <<conn, exc>>
       ELSE /\ conn' = [conn EXCEPT ![c] = AsyncWithExit(c)]
            /\ pc' = [pc EXCEPT ![c] = "finished"]
            /\ exc' = [exc EXCEPT ![c] = r.exc]
            /\ UNCHANGED yielded
    /\ UNCHANGED <<requestor, kwargs, consumer, ep, fmt, headers, url, status, stopped>>
    /\ UNCHANGED <<sent, afterEnd, fnVars>>

(***************************************************************************)
(* Line 56: the body ends; the loop and the async with block are left and  *)
(* the generator returns.                                                  *)
(***************************************************************************)
StreamEnds(c) ==
    /\ pc[c] = "awaiting_line"
    /\ conn' = [conn EXCEPT ![c] = AsyncWithExit(c)]
    /\ pc' = [pc EXCEPT ![c] = "finished"]
    /\ exc' = [exc EXCEPT ![c] = "StopAsyncIteration"]
    /\ UNCHANGED <<requestor, kwargs, consumer, ep, fmt, headers, url, status, delivered,
                   handled, yielded, stopped>>
    /\ UNCHANGED <<sent, afterEnd, fnVars>>

(***************************************************************************)
(* Lines 59-61: the whole response arrives (httpx has read and released    *)
(* it); raise_for_status; fmt.handle(response, ep.converter or utils.noop) *)
(* is yielded.                                                             *)
(***************************************************************************)
HandleResponse(c, response) ==
    handle(fmt[c], response, ConverterOr(ep.converter, noop), Absent)

ResponseArrives(c, code, text) ==
    /\ pc[c] = "awaiting_response"
    /\ status' = [status EXCEPT ![c] = code]
    /\ conn' = [conn EXCEPT ![c] = "closed"]
    /\ IF ~is_success(code)
       THEN /\ pc' = [pc EXCEPT ![c] = "finished"]
            /\ exc' = [exc EXCEPT ![c] = "HTTPStatusError"]
            /\ UNCHANGED <<handled, yielded>>
       ELSE LET response == Response(code, text)
                r == HandleResponse(c, response) IN
            /\ handled' = [handled EXCEPT ![c] = Append(@, response)]
            /\ IF r.ok
               THEN /\ yielded' = [yielded EXCEPT ![c] = Append(@, r.val)]
                    /\ pc' = [pc EXCEPT ![c] = "yield_single"]
                    /\ exc' = exc
               ELSE /\ pc' = [pc EXCEPT ![c] = "finished"]
                    /\ exc' = [exc EXCEPT ![c] = r.exc]
                    /\ UNCHANGED yielded
    /\ UNCHANGED <<requestor, kwargs, consumer, ep, fmt, headers, url, delivered, stopped>>
    /\ UNCHANGED <<sent, afterEnd, fnVars>>

(***************************************************************************)
(* A later anext(): the generator resumes after its yield.                 *)
(***************************************************************************)
NextPull(c) ==
    /\ pc[c] \in {"yield_line", "yield_single"}
    /\ consumer.exc = ""
    /\ ~stopped[c]
    /\ IF pc[c] = "yield_line"
       THEN /\ pc' = [pc EXCEPT ![c] = "awaiting_line"]
            /\ exc' = exc
       ELSE /\ pc' = [pc EXCEPT ![c] = "finished"]
            /\ exc' = [exc EXCEPT ![c] = "StopAsyncIteration"]
    /\ UNCHANGED <<requestor, kwargs, consumer, ep, fmt, headers, url, conn, status, delivered,
                   handled, yielded, stopped>>
    /\ UNCHANGED <<sent, afterEnd, fnVars>>

(***************************************************************************)
(* The transport raises (connect, read, timeout) at an await.              *)
(***************************************************************************)
ExitOnError(c) == IF conn[c] = "open" THEN AsyncWithExit(c) ELSE conn[c]

TransportError(c) ==
    /\ pc[c] \in {"awaiting_stream", "awaiting_line", "awaiting_response"}
    /\ conn' = [conn EXCEPT ![c] = ExitOnError(c)]
    /\ pc' = [pc EXCEPT ![c] = "finished"]
    /\ exc' = [exc EXCEPT ![c] = "TransportError"]
    /\ UNCHANGED <<requestor, kwargs, consumer, ep, fmt, headers, url, status, delivered,
                   handled, yielded, stopped>>
    /\ UNCHANGED <<sent, afterEnd, fnVars>>

(***************************************************************************)
(* The consuming task is cancelled while it awaits inside the generator:  *)
(* CancelledError is raised at the await.                                  *)
(***************************************************************************)
Cancel(c) ==
    /\ pc[c] \in {"awaiting_stream", "awaiting_line", "awaiting_response"}
    /\ conn' = [conn EXCEPT ![c] = ExitOnError(c)]
    /\ pc' = [pc EXCEPT ![c] = "finished"]
    /\ exc' = [exc EXCEPT ![c] = "CancelledError"]
    /\ stopped' = [stopped EXCEPT ![c] = TRUE]
    /\ UNCHANGED <<requestor, kwargs, consumer, ep, fmt, headers, url, status, delivered,
                   handled, yielded>>
    /\ UNCHANGED <<sent, afterEnd, fnVars>>

(***************************************************************************)
(* The consumer stops pulling (break, return, or Endpoint.__call__ taking  *)
(* only the first element): nothing runs in the generator, which stays     *)
(* suspended at its yield.                                                 *)
(***************************************************************************)
Break(c) ==
    /\ pc[c] \in {"yield_line", "yield_single"}
    /\ consumer.exc = ""
    /\ ~stopped[c]
    /\ stopped' = [stopped EXCEPT ![c] = TRUE]
    /\ UNCHANGED <<requestor, kwargs, consumer, ep, pc, fmt, headers, url, conn, status,
                   delivered, handled, yielded, exc>>
    /\ UNCHANGED <<sent, afterEnd, fnVars>>

(***************************************************************************)
(* An abandoned generator is finalized (aclose) once it is garbage         *)
(* collected: GeneratorExit is raised at its yield.  Nothing in the code   *)
(* makes this happen; it may occur at any later time or never.             *)
(***************************************************************************)
Finalize(c) ==
    /\ pc[c] \in {"yield_line", "yield_single"}
    /\ stopped[c]
    /\ conn' = [conn EXCEPT ![c] = ExitOnError(c)]
    /\ pc' = [pc EXCEPT ![c] = "finished"]
    /\ exc' = [exc EXCEPT ![c] = "GeneratorExit"]
    /\ UNCHANGED <<requestor, kwargs, consumer, ep, fmt, headers, url, status, delivered,
                   handled, yielded, stopped>>
    /\ UNCHANGED <<sent, afterEnd, fnVars>>

(***************************************************************************)
(* anext() on a generator that has finished, with or without an error:     *)
(* Python raises StopAsyncIteration and runs no line of the body.          *)
(***************************************************************************)
PullFinished(c) ==
    /\ pc[c] = "finished"
    /\ consumer.exc = ""
    /\ ~stopped[c]
    /\ afterEnd' = [afterEnd EXCEPT ![c] = "StopAsyncIteration"]
    /\ UNCHANGED <<requestor, kwargs, consumer, ep, pc, fmt, headers, url, conn, status,
                   delivered, handled, yielded, exc, stopped>>
    /\ UNCHANGED <<sent, fnVars>>

Next ==
    \/ \E c \in Calls : Request(c)
    \/ \E c \in Calls : FirstPull(c)
    \/ \E c \in Calls, code \in Statuses : StreamOpened(c, code)
    \/ \E c \in Calls, line \in Lines : LineArrives(c, line)
    \/ \E c \in Calls : StreamEnds(c)
    \/ \E c \in Calls, code \in Statuses, text \in Lines : ResponseArrives(c, code, text.s)
    \/ \E c \in Calls : NextPull(c)
    \/ \E c \in Calls : TransportError(c)
    \/ \E c \in Calls : Cancel(c)
    \/ \E c \in Calls : Break(c)
    \/ \E c \in Calls : Finalize(c)
    \/ \E c \in Calls : PullFinished(c)

Spec == Init /\ [][Next]_vars

(***************************************************************************)
(* The call operator of the four descriptor classes (endpoints.py).        *)
(* PostEndpoint inherits Endpoint.__call__ and StreamPostEndpoint inherits *)
(* StreamEndpoint.__call__; the classes differ in the defaults of stream   *)
(* and method, which the constructor's caller may override.                *)
(*   Endpoint.__call__        call is a coroutine function: awaited, it    *)
(*                            creates the generator, awaits its anext()   *)
(*                            and returns what that gives or raises what   *)
(*                            it raises; the generator is dropped          *)
(*   StreamEndpoint.__call__  call returns the generator it creates        *)
(***************************************************************************)
EndpointClasses == {"Endpoint", "PostEndpoint", "StreamEndpoint", "StreamPostEndpoint"}

StreamClasses == {"StreamEndpoint", "StreamPostEndpoint"}

ClassStream(cls) == cls \in StreamClasses

ClassMethod(cls) == IF cls \in {"PostEndpoint", "StreamPostEndpoint"} THEN "POST" ELSE "GET"

CallShape_by_flag(cls) == IF ep.stream THEN "generator" ELSE "pending"

CallShape(cls) == IF cls \in StreamClasses THEN "generator" ELSE "pending"

anext_none(c) == PyNone

anext_value(c) == yielded[c][Len(yielded[c])]

OpCall(c) ==
    /\ op.cls # ""
    /\ op.kind = "none"
    /\ consumer.exc = ""
    /\ c <= consumer.calls
    /\ pc[c] = "unused"
    /\ \A d \in Calls : d < c => pc[d] # "unused"
    /\ pc' = [pc EXCEPT ![c] = "created"]
    /\ sent' = [sent EXCEPT ![c] = generator_created(@)]
    /\ op' = [op EXCEPT !.kind = CallShape(op.cls), !.c = c]
    /\ UNCHANGED <<requestor, kwargs, consumer, ep, fmt, headers, url, conn, status, delivered,
                   handled, yielded, exc, stopped, afterEnd>>
    /\ UNCHANGED <<hcall, hresult, ucall, uresult, pcall, presult, conv, clientVars>>

OpReturn(c) ==
    /\ op.kind = "pending"
    /\ op.c = c
    /\ pc[c] \in {"yield_line", "yield_single"}
    /\ op' = [op EXCEPT !.kind = "value", !.val = anext_value(c)]
    /\ stopped' = [stopped EXCEPT ![c] = TRUE]
    /\ UNCHANGED <<requestor, kwargs, consumer, ep, pc, fmt, headers, url, sent, conn, status,
                   delivered, handled, yielded, exc, afterEnd>>
    /\ UNCHANGED <<hcall, hresult, ucall, uresult, pcall, presult, conv, clientVars>>

OpRaise(c) ==
    /\ op.kind = "pending"
    /\ op.c = c
    /\ pc[c] = "finished"
    /\ op' = [op EXCEPT !.kind = "raise", !.exc = exc[c]]
    /\ stopped' = [stopped EXCEPT ![c] = TRUE]
    /\ UNCHANGED <<requestor, kwargs, consumer, ep, pc, fmt, headers, url, sent, conn, status,
                   delivered, handled, yielded, exc, afterEnd>>
    /\ UNCHANGED <<hcall, hresult, ucall, uresult, pcall, presult, conv, clientVars>>

InitCallOp ==
    /\ requestor = Requestor_init(TokenSession_init("token"),
                                  <<"https://lichess.org", "/">>, JSON)
    /\ kwargs = [headers |-> NoHeaders]
    /\ consumer = Consumer(1)
    /\ \E cls \in EndpointClasses :
        /\ ep \in {Endpoint(p, st, ClassMethod(cls), f, cv) :
                        p \in EndpointPaths, st \in BOOLEAN, f \in EndpointFormats,
                        cv \in {None, "f"}}
        /\ op = [NoOp EXCEPT !.cls = cls]
    /\ conv = NoConv
    /\ InitCalls
    /\ hcall = NoCall
    /\ hresult = Ok(PyNone)
    /\ ucall = NoJoin
    /\ uresult = <<>>
    /\ pcall = NoParse
    /\ presult = Ok(PyNone)
    /\ NoClient

NextCallOp ==
    \/ \E c \in Calls : OpCall(c)
    \/ op.kind \in {"pending", "generator"} /\ FirstPull(op.c)
    \/ \E c \in Calls, code \in Statuses : StreamOpened(c, code)
    \/ \E c \in Calls, line \in Lines : LineArrives(c, line)
    \/ \E c \in Calls : StreamEnds(c)
    \/ \E c \in Calls, code \in Statuses, text \in Lines : ResponseArrives(c, code, text.s)
    \/ \E c \in Calls : TransportError(c)
    \/ \E c \in Calls : Cancel(c)
    \/ \E c \in Calls : OpReturn(c)
    \/ \E c \in Calls : OpRaise(c)
    \/ op.kind = "generator" /\ NextPull(op.c)
    \/ op.kind = "generator" /\ Break(op.c)
    \/ op.kind = "generator" /\ PullFinished(op.c)
    \/ \E c \in Calls : Finalize(c)

SpecCallOp == InitCallOp /\ [][NextCallOp]_vars

(***************************************************************************)
(* A consumer that makes one call and may pass headers of its own, through *)
(* an Endpoint that leaves the format to the Requestor.                    *)
(***************************************************************************)
InitHeaders ==
    /\ requestor \in {Requestor_init(TokenSession_init(t), b, f) :
                         t \in Tokens, b \in BaseUrls, f \in DefaultFormats}
    /\ kwargs \in CallerKwargs
    /\ consumer = Consumer(1)
    /\ ep \in {Endpoint(p, st, m, NoFmt, None) :
                 p \in EndpointPaths, st \in BOOLEAN, m \in {"GET", "POST"}}
    /\ InitCalls
    /\ hcall = NoCall
    /\ hresult = Ok(PyNone)
    /\ ucall = NoJoin
    /\ uresult = <<>>
    /\ pcall = NoParse
    /\ presult = Ok(PyNone)
    /\ op = NoOp
    /\ conv = NoConv
    /\ NoClient

SpecHeaders == InitHeaders /\ [][Next]_vars

(***************************************************************************)
(* A consumer that makes two calls through one Endpoint object and assigns *)
(* ep.fmt once, at any moment, as test_games_by_user does between its two  *)
(* loops (`ep.fmt = NDJSON` after `from simul.formats import *`).  The     *)
(* names the formats module defines are those of formats.py lines 104-107; *)
(* any other name raises NameError, which ends the consumer.               *)
(***************************************************************************)
formats_names == {"TEXT", "JSON", "LIJSON", "PGN"}

formats_attr(name) ==
    CASE name = "TEXT" -> TEXT
      [] name = "JSON" -> JSON
      [] name = "LIJSON" -> LIJSON
      [] name = "PGN" -> PGN

ReassignNames == {"JSON", "NDJSON"}

SetFmt(name) ==
    /\ consumer.exc = ""
    /\ consumer.reassigned = ""
    /\ IF name \in formats_names
       THEN /\ ep' = [ep EXCEPT !.fmt = formats_attr(name)]
            /\ consumer' = [consumer EXCEPT !.reassigned = name, !.was = ep.fmt,
                                            !.after = {c \in Calls : pc[c] \notin {"unused", "created"}}]
       ELSE /\ ep' = ep
            /\ consumer' = [consumer EXCEPT !.reassigned = name, !.was = ep.fmt,
                                            !.exc = "NameError",
                                            !.after = {c \in Calls : pc[c] \notin {"unused", "created"}}]
    /\ UNCHANGED <<requestor, kwargs, pc, fmt, headers, url, sent, conn, status,
                   delivered, handled, yielded, exc, stopped, afterEnd>>
    /\ UNCHANGED fnVars

InitShared ==
    /\ requestor = Requestor_init(TokenSession_init("token"),
                                  <<"https://lichess.org", "/">>, JSON)
    /\ kwargs \in {[headers |-> NoHeaders]}
    /\ consumer = Consumer(2)
    /\ ep \in {Endpoint(<<"api", "/", "games", "/", "user", "/", "x">>, TRUE, "GET", PGN, None),
               Endpoint(<<"api", "/", "account">>, FALSE, "GET", TEXT, None)}
    /\ InitCalls
    /\ hcall = NoCall
    /\ hresult = Ok(PyNone)
    /\ ucall = NoJoin
    /\ uresult = <<>>
    /\ pcall = NoParse
    /\ presult = Ok(PyNone)
    /\ op = NoOp
    /\ conv = NoConv
    /\ NoClient

NextShared ==
    \/ Next
    \/ \E name \in ReassignNames : SetFmt(name)

SpecShared == InitShared /\ [][NextShared]_vars

(***************************************************************************)
(* A consumer that makes one call and assigns one field of the Endpoint    *)
(* object once, at any moment: before the call, between creating the       *)
(* generator and its first pull, or while the generator is in flight.      *)
(***************************************************************************)
ReassignFields == {"path", "method", "stream", "fmt"}

ReassignValue(field) ==
    CASE field = "path" -> <<"api", "/", "games", "/", "user", "/", "y">>
      [] field = "method" -> IF ep.method = "GET" THEN "POST" ELSE "GET"
      [] field = "stream" -> ~ep.stream
      [] field = "fmt" -> IF ep.fmt = JSON THEN PGN ELSE JSON

SetAttr(field) ==
    /\ consumer.exc = ""
    /\ consumer.reassigned = ""
    /\ ep' = [ep EXCEPT ![field] = ReassignValue(field)]
    /\ consumer' = [consumer EXCEPT !.reassigned = field, !.old = ep, !.was = ep.fmt,
                                    !.linesBefore = [c \in Calls |-> Len(handled[c])],
                                    !.after = {c \in Calls : pc[c] \notin {"unused", "created"}}]
    /\ UNCHANGED <<requestor, kwargs, pc, fmt, headers, url, sent, conn, status,
                   delivered, handled, yielded, exc, stopped, afterEnd>>
    /\ UNCHANGED fnVars

InitReassign ==
    /\ requestor = Requestor_init(TokenSession_init("token"),
                                  <<"https://lichess.org", "/">>, JSON)
    /\ kwargs = [headers |-> NoHeaders]
    /\ consumer = Consumer(1)
    /\ ep \in {Endpoint(<<"api", "/", "games", "/", "user", "/", "x">>, st, "GET", f, None) :
                    st \in BOOLEAN, f \in {NoFmt, PGN, TEXT}}
    /\ InitCalls
    /\ hcall = NoCall
    /\ hresult = Ok(PyNone)
    /\ ucall = NoJoin
    /\ uresult = <<>>
    /\ pcall = NoParse
    /\ presult = Ok(PyNone)
    /\ op = NoOp
    /\ conv = NoConv
    /\ NoClient

NextReassign ==
    \/ Next
    \/ \E field \in ReassignFields : SetAttr(field)

SpecReassign == InitReassign /\ [][NextReassign]_vars

(***************************************************************************)
(* Direct calls of handle on the handler constants, with every way of      *)
(* passing the converter.                                                  *)
(***************************************************************************)
ObjectLine == PyStr(<<"{", "\"", "i", "d", "\"", ":", "1", "}">>)

HandlePayloads ==
    {EmptyLine, NumberLine, ListLine, MoveLine, ObjectLine, Response(200, <<"1">>)}

ConverterArgs == {Absent, None, noop, "f"}

CallHandle(h, content, pos, kw) ==
    /\ hcall' = [called |-> TRUE, h |-> h, content |-> content, pos |-> pos,
                 kw |-> kw]
    /\ hresult' = handle(h, content, pos, kw)
    /\ UNCHANGED <<reqVars, ucall, uresult, pcall, presult, op, conv, clientVars>>

InitHandle ==
    /\ requestor = Requestor_init(TokenSession_init("token"),
                                  <<"https://lichess.org", "/">>, JSON)
    /\ kwargs = [headers |-> NoHeaders]
    /\ consumer = Consumer(0)
    /\ ep = Endpoint(<<"api", "/", "account">>, FALSE, "GET", NoFmt, None)
    /\ InitCalls
    /\ hcall = NoCall
    /\ hresult = Ok(PyNone)
    /\ ucall = NoJoin
    /\ uresult = <<>>
    /\ pcall = NoParse
    /\ presult = Ok(PyNone)
    /\ op = NoOp
    /\ conv = NoConv
    /\ NoClient

NextHandle ==
    \E h \in Handlers, content \in HandlePayloads,
       pos \in ConverterArgs, kw \in ConverterArgs : CallHandle(h, content, pos, kw)

SpecHandle == InitHandle /\ [][NextHandle]_vars

(***************************************************************************)
(* json.dumps with its default separators, on the values json.loads can    *)
(* return, and the parse of a serialized value by the handler that         *)
(* `from simul.formats import <name>` gives; a name the module does not    *)
(* define raises ImportError.                                              *)
(***************************************************************************)
DigitOf(d) == CHOOSE ch \in DigitChars : DigitVal(ch) = d

RECURSIVE IntDigits(_)
IntDigits(n) ==
    IF n < 10 THEN <<DigitOf(n)>> ELSE IntDigits(n \div 10) \o <<DigitOf(n % 10)>>

RECURSIVE json_dumps(_)
RECURSIVE DumpItems(_)
RECURSIVE DumpPairs(_, _)
json_dumps(v) ==
    CASE v.t = "null" -> <<"n", "u", "l", "l">>
      [] v.t = "bool" -> IF v.n = 1 THEN <<"t", "r", "u", "e">>
                         ELSE <<"f", "a", "l", "s", "e">>
      [] v.t = "int" -> IntDigits(v.n)
      [] v.t = "str" -> <<"\"">> \o v.s \o <<"\"">>
      [] v.t = "list" -> <<"[">> \o DumpItems(v.items) \o <<"]">>
      [] v.t = "dict" -> <<"{">> \o DumpPairs(v.d, DOMAIN v.d) \o <<"}">>

DumpItems(items) ==
    IF items = <<>> THEN <<>>
    ELSE json_dumps(Head(items))
            \o (IF Tail(items) = <<>> THEN <<>> ELSE <<",", " ">> \o DumpItems(Tail(items)))

DumpPairs(d, keys) ==
    IF keys = {} THEN <<>>
    ELSE LET k == CHOOSE key \in keys : TRUE IN
         <<"\"">> \o k \o <<"\"", ":", " ">> \o json_dumps(d[k])
            \o (IF keys \ {k} = {} THEN <<>> ELSE <<",", " ">> \o DumpPairs(d, keys \ {k}))

JsonAtoms ==
    {PyNone, PyBool(TRUE), PyBool(FALSE), PyInt(0), PyInt(7), PyInt(10),
     PyStr(<<>>), PyStr(<<"e", "4">>)}

SmallAtoms == {PyNone, PyBool(TRUE), PyInt(1), PyStr(<<"a">>)}

JsonLists ==
    {PyList(<<>>)} \cup {PyList(<<a>>) : a \in SmallAtoms}
        \cup {PyList(<<a, b>>) : a \in SmallAtoms, b \in SmallAtoms}

JsonDicts ==
    {PyDict(EmptyDict)}
        \cup {PyDict(Put(EmptyDict, <<"i", "d">>, a)) : a \in JsonAtoms}
        \cup {PyDict(Put(Put(EmptyDict, <<"i", "d">>, a), <<"n">>, PyList(<<b>>))) :
                a \in SmallAtoms, b \in SmallAtoms}

JsonNested ==
    {PyList(<<PyList(<<a>>), PyDict(Put(EmptyDict, <<"k">>, a))>>) : a \in SmallAtoms}

JsonValues == JsonAtoms \cup JsonLists \cup JsonDicts \cup JsonNested

JsonFamilyNames == {"JSON", "NDJSON", "LIJSON"}

CallParse(name, x) ==
    /\ pcall' = [called |-> TRUE, name |-> name, x |-> x]
    /\ presult' = IF name \in formats_names
                  THEN parse(formats_attr(name), PyStr(json_dumps(x)))
                  ELSE Raise("ImportError")
    /\ UNCHANGED <<reqVars, hcall, hresult, ucall, uresult, op, conv, clientVars>>

InitRoundTrip ==
    /\ requestor = Requestor_init(TokenSession_init("token"),
                                  <<"https://lichess.org", "/">>, JSON)
    /\ kwargs = [headers |-> NoHeaders]
    /\ consumer = Consumer(0)
    /\ ep = Endpoint(<<"api", "/", "account">>, FALSE, "GET", NoFmt, None)
    /\ InitCalls
    /\ hcall = NoCall
    /\ hresult = Ok(PyNone)
    /\ ucall = NoJoin
    /\ uresult = <<>>
    /\ pcall = NoParse
    /\ presult = Ok(PyNone)
    /\ op = NoOp
    /\ conv = NoConv
    /\ NoClient

NextRoundTrip == \E name \in JsonFamilyNames, x \in JsonValues : CallParse(name, x)

SpecRoundTrip == InitRoundTrip /\ [][NextRoundTrip]_vars

(***************************************************************************)
(* Direct calls of urljoin, as line 51 makes them, on base URLs with and   *)
(* without a path and on endpoint paths with and without a leading slash.  *)
(***************************************************************************)
JoinBases ==
    {<<o>> \o bp :
        o \in {"https://lichess.org", "https://example.org"},
        bp \in {<<>>, <<"/">>, <<"/", "v1">>, <<"/", "v1", "/">>}}

JoinPaths ==
    {<<>>,
     <<"/">>,
     <<"account">>,
     <<"api", "/">>,
     <<"api", "/", "account">>,
     <<"/", "api", "/", "account">>,
     <<"/", "api", "/", "account", "/">>,
     <<"api", "/", "stream", "/", "event">>,
     <<"api", "/", "games", "/", "user", "/", "x">>,
     <<"/", "api", "/", "user", "/", "x", "/", "rating-history">>,
     <<"player", "/", "top", "/", "10", "/", "blitz">>,
     <<"game", "/", "export", "/", "x">>,
     <<"https://example.org", "/", "api", "/", "account">>}

CallUrljoin(base, path) ==
    /\ ucall' = [called |-> TRUE, base |-> base, url |-> path]
    /\ uresult' = urljoin(base, path)
    /\ UNCHANGED <<reqVars, hcall, hresult, pcall, presult, op, conv, clientVars>>

InitUrl ==
    /\ requestor = Requestor_init(TokenSession_init("token"),
                                  <<"https://lichess.org", "/">>, JSON)
    /\ kwargs = [headers |-> NoHeaders]
    /\ consumer = Consumer(0)
    /\ ep = Endpoint(<<"api", "/", "account">>, FALSE, "GET", NoFmt, None)
    /\ InitCalls
    /\ hcall = NoCall
    /\ hresult = Ok(PyNone)
    /\ ucall = NoJoin
    /\ uresult = <<>>
    /\ pcall = NoParse
    /\ presult = Ok(PyNone)
    /\ op = NoOp
    /\ conv = NoConv
    /\ NoClient

NextUrl == \E base \in JoinBases, path \in JoinPaths : CallUrljoin(base, path)

SpecUrl == InitUrl /\ [][NextUrl]_vars

(***************************************************************************)
(* Client(session, base_url, pgn_as_default): Client.__init__ runs         *)
(* _BaseClient.__init__ for the Client itself (line 77) and then           *)
(* constructs its eleven namespaces in the order of lines 78-89, each by   *)
(* _BaseClient.__init__ or _OptionalPgnClient.__init__.  A base_url of     *)
(* None is the empty URL.                                                  *)
(***************************************************************************)
API_URL == <<"https://lichess.org", "/">>

OptionalPgnClients == {"games", "tournaments"}

BaseClient_init_default(session, base_url) == Requestor_init(session, API_URL, JSON)

BaseClient_init(session, base_url) ==
    Requestor_init(session, IF base_url # <<>> THEN base_url ELSE API_URL, JSON)

Position(o) == CHOOSE i \in DOMAIN ClientOrder : ClientOrder[i] = o

Construct(o) ==
    /\ ~objs[o].made
    /\ \A i \in 1 .. Position(o) - 1 : objs[ClientOrder[i]].made
    /\ heap' = Append(heap, BaseClient_init(cargs.session, cargs.base_url))
    /\ objs' = [objs EXCEPT ![o] =
                    [made |-> TRUE, r |-> Len(heap) + 1,
                     pgn_as_default |->
                        IF o \notin OptionalPgnClients THEN "absent"
                        ELSE IF cargs.pgn_as_default THEN "True" ELSE "False"]]
    /\ UNCHANGED <<reqVars, hcall, hresult, ucall, uresult, pcall, presult, op, conv, cargs,
                   mcall, seek>>

(***************************************************************************)
(* The client methods that take as_pgn (clients.py lines 285, 311, 357,    *)
(* 854), each with the default of its as_pgn parameter and the name of the *)
(* format it uses when not PGN; _use_pgn (lines 42-44) merges as_pgn with  *)
(* the namespace's pgn_as_default.  Python's True, False and None are the  *)
(* strings "True", "False" and "None".                                     *)
(***************************************************************************)
ExportMethods ==
    {[owner |-> "games", name |-> "export", default |-> "None", other |-> "JSON"],
     [owner |-> "games", name |-> "export_by_player", default |-> "None", other |-> "NDJSON"],
     [owner |-> "games", name |-> "export_multi", default |-> "None", other |-> "NDJSON"],
     [owner |-> "tournaments", name |-> "export_games", default |-> "False", other |-> "NDJSON"]}

AsPgnArgs == {"omitted", "None", "True", "False"}

use_pgn(as_pgn, pgn_as_default) == IF as_pgn # "None" THEN as_pgn ELSE pgn_as_default

CallExport(m, as_pgn) ==
    /\ \A o \in OwnerNames : objs[o].made
    /\ LET arg == IF as_pgn = "omitted" THEN m.default ELSE as_pgn
           chosen == IF use_pgn(arg, objs[m.owner].pgn_as_default) = "True"
                     THEN "PGN" ELSE m.other
       IN  mcall' = [called |-> TRUE, owner |-> m.owner, name |-> m.name,
                     as_pgn |-> as_pgn, fmt |-> chosen,
                     exc |-> IF chosen \in formats_names THEN "" ELSE "ImportError"]
    /\ UNCHANGED <<reqVars, hcall, hresult, ucall, uresult, pcall, presult, op, conv, cargs,
                   heap, objs, seek>>

ClientSessions == {TokenSession_init("token"), TokenSession_init("other")}

ClientBaseUrls == {<<>>, <<"https://lichess.org", "/">>, <<"https://example.org", "/">>}

InitClient ==
    /\ requestor = Requestor_init(TokenSession_init("token"),
                                  <<"https://lichess.org", "/">>, JSON)
    /\ kwargs = [headers |-> NoHeaders]
    /\ consumer = Consumer(0)
    /\ ep = Endpoint(<<"api", "/", "account">>, FALSE, "GET", NoFmt, None)
    /\ InitCalls
    /\ hcall = NoCall
    /\ hresult = Ok(PyNone)
    /\ ucall = NoJoin
    /\ uresult = <<>>
    /\ pcall = NoParse
    /\ presult = Ok(PyNone)
    /\ op = NoOp
    /\ conv = NoConv
    /\ cargs \in [session : ClientSessions, base_url : ClientBaseUrls,
                   pgn_as_default : BOOLEAN]
    /\ heap = <<>>
    /\ objs = [o \in OwnerNames |-> NoObject]
    /\ mcall = NoMethodCall
    /\ seek = NoSeek

NextClient ==
    \/ \E o \in OwnerNames : Construct(o)
    \/ \E m \in ExportMethods, as_pgn \in AsPgnArgs : CallExport(m, as_pgn)

SpecClient == InitClient /\ [][NextClient]_vars

(***************************************************************************)
(* Model.convert (models.py lines 19-42).  A model type's conversions are  *)
(* its public class attributes, each a converter; those of Account and     *)
(* Game are utils.datetime_from_millis.  convert_one assigns the converted *)
(* value to data[k] for every k in set(data) & set(cls.conversions) and    *)
(* returns data; convert maps convert_one over a list or tuple and returns *)
(* a new list of what it returned.                                         *)
(***************************************************************************)
ModelTypes == {"Account", "Game"}

conversions(cls) ==
    IF cls = "Account" THEN {"createdAt", "seenAt"} ELSE {"createdAt", "lastMoveAt"}

datetime_from_millis(v) == [Blank EXCEPT !.t = "datetime", !.n = v.n]

DocFields == {"id", "createdAt", "seenAt", "lastMoveAt"}

FieldValue(k) == IF k = "id" THEN PyStr(<<"a">>) ELSE PyInt(7)

Documents == {[k \in ks |-> FieldValue(k)] : ks \in SUBSET DocFields}

SecondDocuments ==
    {[k \in ks |-> FieldValue(k)] : ks \in {{}, {"id", "createdAt"}, DocFields}}

ConvertTarget(docs, r) == r

RECURSIVE convert_fields(_, _, _, _)
convert_fields(doc, keys, r, log) ==
    IF keys = {} THEN [doc |-> doc, log |-> log]
    ELSE LET k == CHOOSE key \in keys : TRUE IN
         convert_fields([doc EXCEPT ![k] = datetime_from_millis(doc[k])], keys \ {k}, r,
                        Append(log, <<r, k>>))

convert_one(cls, docs, r, log) ==
    LET done == convert_fields(docs[r], DOMAIN docs[r] \cap conversions(cls), r, log)
        t == ConvertTarget(docs, r)
    IN  [docs |-> IF t \in DOMAIN docs THEN [docs EXCEPT ![t] = done.doc]
                  ELSE Append(docs, done.doc),
         ref |-> t,
         log |-> done.log]

RECURSIVE convert_list(_, _, _, _, _)
convert_list(cls, docs, refs, out, log) ==
    IF refs = <<>> THEN [docs |-> docs, refs |-> out, log |-> log]
    ELSE LET one == convert_one(cls, docs, Head(refs), log) IN
         convert_list(cls, one.docs, Tail(refs), Append(out, one.ref), one.log)

convert(cls, docs, arg) ==
    IF arg.kind \in {"list", "tuple"}
    THEN LET all == convert_list(cls, docs, arg.refs, <<>>, <<>>) IN
         [docs |-> all.docs, result |-> [kind |-> "list", refs |-> all.refs],
          log |-> all.log]
    ELSE LET one == convert_one(cls, docs, arg.refs[1], <<>>) IN
         [docs |-> one.docs, result |-> [kind |-> "dict", refs |-> <<one.ref>>],
          log |-> one.log]

ConvertArgs ==
    {[kind |-> "dict", refs |-> <<1>>], [kind |-> "list", refs |-> <<>>],
     [kind |-> "list", refs |-> <<2>>], [kind |-> "list", refs |-> <<1, 2>>],
     [kind |-> "tuple", refs |-> <<2, 1>>]}

CallConvert(cls, docs, arg) ==
    /\ ~conv.called
    /\ LET r == convert(cls, docs, arg) IN
        conv' = [called |-> TRUE, cls |-> cls, arg |-> arg, before |-> docs,
                 after |-> r.docs, result |-> r.result, log |-> r.log]
    /\ UNCHANGED <<reqVars, hcall, hresult, ucall, uresult, pcall, presult, op, clientVars>>

InitConvert ==
    /\ requestor = Requestor_init(TokenSession_init("token"), API_URL, JSON)
    /\ kwargs = [headers |-> NoHeaders]
    /\ consumer = Consumer(0)
    /\ ep = Endpoint(<<"api", "/", "account">>, FALSE, "GET", NoFmt, None)
    /\ InitCalls
    /\ hcall = NoCall
    /\ hresult = Ok(PyNone)
    /\ ucall = NoJoin
    /\ uresult = <<>>
    /\ pcall = NoParse
    /\ presult = Ok(PyNone)
    /\ op = NoOp
    /\ conv = NoConv
    /\ NoClient

NextConvert ==
    \E cls \in ModelTypes, d1 \in Documents, d2 \in SecondDocuments, arg \in ConvertArgs :
        CallConvert(cls, <<d1, d2>>, arg)

SpecConvert == InitConvert /\ [][NextConvert]_vars

(***************************************************************************)
(* _Board.seek (clients.py lines 584-618).  The payload is built (lines    *)
(* 598-609), the clock is read, and line 614 evaluates                     *)
(*   StreamPostEndpoint('api/board/seek', fmt=TEXT)(self._r)(data=payload)()*)
(* as the iterable of its `async for`: the descriptor's call operator      *)
(* gives the function call, call(data=payload) gives the generator of      *)
(* requestor.request, and the trailing () calls that generator object.  An *)
(* async generator object is not callable: Python raises TypeError, the    *)
(* loop is never entered and the generator is never pulled.  No timeout    *)
(* keyword is passed.                                                      *)
(***************************************************************************)
PyCallable(kind) == kind \in {"function", "coroutine function", "class"}

SeekRanges ==
    {NoRange,
     [kind |-> "tuple", low |-> 1500, high |-> 1800, s |-> <<>>],
     [kind |-> "str", low |-> 0, high |-> 0, s |-> <<"1500", "-", "1800">>]}

SeekPayload(time, increment, rated, variant, color, rating_range) ==
    [rated |-> IF rated THEN "true" ELSE "false",
     time |-> time,
     increment |-> increment,
     variant |-> variant,
     color |-> color,
     ratingRange |-> IF rating_range.kind = "tuple"
                     THEN IntDigits(rating_range.low) \o <<"-">>
                            \o IntDigits(rating_range.high)
                     ELSE rating_range.s]

SeekEndpoint == Endpoint(<<"api", "/", "board", "/", "seek">>, TRUE, "POST", TEXT, None)

SeekCall(time, increment, rated, variant, color, rating_range) ==
    /\ ~seek.called
    /\ pc[1] = "unused"
    /\ ep' = SeekEndpoint
    /\ pc' = [pc EXCEPT ![1] = "created"]
    /\ sent' = [sent EXCEPT ![1] = generator_created(@)]
    /\ op' = [op EXCEPT !.cls = "StreamPostEndpoint",
                        !.kind = CallShape("StreamPostEndpoint"), !.c = 1]
    /\ seek' = [called |-> TRUE, time |-> time, increment |-> increment, rated |-> rated,
                variant |-> variant, color |-> color, rating_range |-> rating_range,
                payload |-> SeekPayload(time, increment, rated, variant, color,
                                        rating_range),
                timeout |-> "absent",
                state |-> IF PyCallable("async_generator") THEN "iterating" ELSE "raised",
                exc |-> IF PyCallable("async_generator") THEN "" ELSE "TypeError"]
    /\ UNCHANGED <<requestor, kwargs, consumer, fmt, headers, url, conn, status, delivered,
                   handled, yielded, exc, stopped, afterEnd>>
    /\ UNCHANGED <<hcall, hresult, ucall, uresult, pcall, presult, conv, cargs, heap, objs,
                   mcall>>

InitSeek ==
    /\ requestor = Requestor_init(TokenSession_init("token"), API_URL, JSON)
    /\ kwargs = [headers |-> NoHeaders]
    /\ consumer = Consumer(1)
    /\ ep = Endpoint(<<"api", "/", "account">>, FALSE, "GET", NoFmt, None)
    /\ InitCalls
    /\ hcall = NoCall
    /\ hresult = Ok(PyNone)
    /\ ucall = NoJoin
    /\ uresult = <<>>
    /\ pcall = NoParse
    /\ presult = Ok(PyNone)
    /\ op = NoOp
    /\ conv = NoConv
    /\ NoClient

NextSeek ==
    \E time \in {1, 10}, increment \in {0, 5}, rated \in BOOLEAN,
       variant \in {"standard", "chess960"}, color \in {"random", "white", "black"},
       rating_range \in SeekRanges :
        SeekCall(time, increment, rated, variant, color, rating_range)

SpecSeek == InitSeek /\ [][NextSeek]_vars

(***************************************************************************)
(* Properties of the request lifecycle (Spec).                             *)
(***************************************************************************)
Started(c) == pc[c] \notin {"unused", "created"}

Success(c) == 200 <= status[c] /\ status[c] <= 299

RECURSIVE NonEmptyCount(_)
NonEmptyCount(lines) ==
    IF lines = <<>> THEN 0
    ELSE (IF Head(lines) = EmptyLine THEN 0 ELSE 1) + NonEmptyCount(Tail(lines))

\* C1: a non-streaming call whose response has a 2xx status yields exactly
\* one value, the result of handle(response, ep.converter or identity), and
\* ends without an error.
C1_SingleValue ==
    \A c \in Calls :
        (Started(c) /\ ~ep.stream /\ Success(c)) =>
            /\ Len(yielded[c]) = 1
            /\ Len(handled[c]) = 1
            /\ yielded[c][1] = HandleResponse(c, handled[c][1]).val
            /\ exc[c] \in {"", "StopAsyncIteration", "GeneratorExit"}

\* C2: a streamed 2xx response read to exhaustion yields exactly one value
\* per non-empty line; an empty line yields nothing and raises nothing.
C2_OnePerNonEmptyLine ==
    \A c \in Calls :
        (Started(c) /\ ep.stream /\ Success(c)) =>
            /\ exc[c] = "StopAsyncIteration" =>
                    Len(yielded[c]) = NonEmptyCount(delivered[c])
            /\ (delivered[c] # <<>> /\ delivered[c][Len(delivered[c])] = EmptyLine) =>
                    exc[c] \notin {"JSONDecodeError", "TypeError"}

\* C3: when the response status is outside 200-299 the sequence ends with
\* the HTTP status error, no value was yielded and handle was never called.
C3_StatusErrorFirst ==
    \A c \in Calls :
        (status[c] # 0 /\ (status[c] < 200 \/ status[c] > 299)) =>
            /\ pc[c] = "finished"
            /\ exc[c] = "HTTPStatusError"
            /\ yielded[c] = <<>>
            /\ handled[c] = <<>>

C3_Witness ==
    \E c \in Calls :
        /\ ep.stream
        /\ status[c] = 300
        /\ exc[c] = "HTTPStatusError"
        /\ conn[c] = "closed"

\* C4: once the consumer of a streamed sequence has stopped pulling, the
\* streamed connection is not open.
C4_StopClosesConnection ==
    \A c \in Calls : (ep.stream /\ stopped[c]) => conn[c] # "open"

\* C5: a sequence that has terminated (exhausted, status error, decode
\* error, transport error, cancelled or closed) holds no open connection,
\* and the connection of a response that was received has been closed.
C5_ReleasedOnExit ==
    \A c \in Calls :
        pc[c] = "finished" =>
            /\ conn[c] # "open"
            /\ status[c] # 0 => conn[c] = "closed"

C5_Witness ==
    \E c \in Calls :
        /\ pc[c] = "finished"
        /\ exc[c] = "JSONDecodeError"
        /\ Len(yielded[c]) = 1
        /\ conn[c] = "closed"

\* C6: in a streamed sequence the i-th yielded value is the decoding of the
\* i-th delivered line; only a last line whose decoding raised, ending the
\* sequence, has no value.
C6_ArrivalOrder ==
    \A c \in Calls :
        (Started(c) /\ ep.stream) =>
            /\ Len(yielded[c]) <= Len(delivered[c])
            /\ \A i \in 1 .. Len(yielded[c]) :
                    /\ parse(fmt[c], delivered[c][i]).ok
                    /\ yielded[c][i] = parse(fmt[c], delivered[c][i]).val
            /\ Len(yielded[c]) < Len(delivered[c]) =>
                    /\ Len(yielded[c]) = Len(delivered[c]) - 1
                    /\ pc[c] = "finished"
                    /\ ~parse(fmt[c], delivered[c][Len(delivered[c])]).ok

C6_Witness ==
    \E c \in Calls :
        /\ ep.stream
        /\ Len(yielded[c]) = 2
        /\ delivered[c] = <<MoveLine, NumberLine>>
        /\ yielded[c][1] # yielded[c][2]

\* C7: every value yielded by a streaming call whose Endpoint carries a
\* converter and whose handler is not PGN is converter(parse(line)) for its
\* source line.
C7_StreamConverterApplied ==
    \A c \in Calls :
        (Started(c) /\ ep.stream /\ ep.converter # None
            /\ fmt[c].cls # "PgnHandler") =>
            \A i \in 1 .. Len(yielded[c]) :
                yielded[c][i] =
                    CallConverter(ep.converter, parse(fmt[c], delivered[c][i]).val).val

\* C8: a non-streaming GET call with the PGN handler and a 2xx response
\* yields exactly the response text, unchanged, and does not raise.
C8_PgnTextUnchanged ==
    \A c \in Calls :
        (Started(c) /\ ~ep.stream /\ ep.method = "GET" /\ fmt[c] = PGN
            /\ Success(c)) =>
            /\ exc[c] # "TypeError"
            /\ Len(handled[c]) = 1
            /\ yielded[c] = <<PyStr(handled[c][1].s)>>

Decoded(v) == IF v.t = "converted" THEN v.items[1] ELSE v

JsonTypes == {"null", "bool", "int", "str", "list", "dict"}

\* C11: every value yielded is a text string when the resolved handler is
\* PGN or TEXT and a decoded JSON value when it is of the JSON family, for
\* streaming and non-streaming calls alike; the transport's response object
\* is never yielded, neither as it is nor as the argument of the converter.
C11_ElementTypeMatchesFormat ==
    \A c \in Calls :
        \A i \in 1 .. Len(yielded[c]) :
            LET v == Decoded(yielded[c][i]) IN
            /\ v.t # "Response"
            /\ fmt[c].cls \in {"PgnHandler", "TextHandler"} => v.t = "str"
            /\ fmt[c].cls = "JsonHandler" => v.t \in JsonTypes

\* C12: the headers sent with a request are the additive merge of the
\* headers the caller passed and the handler's Accept header: every header
\* the caller passed, other than Accept, is on the outgoing request with its
\* value.
C12_CallerHeadersKept ==
    \A c \in Calls :
        sent[c].n > 0 =>
            \A k \in DOMAIN kwargs.headers \ {"Accept"} :
                /\ k \in DOMAIN sent[c].headers
                /\ sent[c].headers[k] = kwargs.headers[k]

ResolvedFmt == IF ep.fmt = NoFmt THEN requestor.default_fmt ELSE ep.fmt

\* C13: the handler of a call is ep.fmt when that is not None and the
\* Requestor's default_fmt otherwise; the Accept header of the request is
\* that handler's mime_type, and every value of the sequence is decoded by
\* that handler.
C13_HandlerResolution ==
    \A c \in Calls :
        Started(c) =>
            /\ fmt[c] = ResolvedFmt
            /\ "Accept" \in DOMAIN sent[c].headers
            /\ sent[c].headers["Accept"] = ResolvedFmt.mime_type
            /\ \A i \in 1 .. Len(yielded[c]) :
                    Decoded(yielded[c][i]) = parse(ResolvedFmt, handled[c][i]).val

C13_Witness ==
    \E c \in Calls :
        /\ ep.fmt = NoFmt
        /\ ep.stream
        /\ sent[c].n = 1
        /\ Len(yielded[c]) = 2

ExampleOrgAccount == <<"https://example.org", "/", "api", "/", "account">>

EndsWith(u, suffix) ==
    /\ Len(u) >= Len(suffix)
    /\ SubSeq(u, Len(u) - Len(suffix) + 1, Len(u)) = suffix

IsRelativePath(path) == path # <<>> /\ Head(path) \notin {"/"} /\ ~IsOrigin(Head(path))

DecodeFails(c, k) == ~parse(fmt[c], delivered[c][k]).ok

FailedLineEnds(c, k) ==
    /\ k = Len(delivered[c])
    /\ pc[c] = "finished"
    /\ exc[c] = parse(fmt[c], delivered[c][k]).exc
    /\ Len(yielded[c]) = k - 1
    /\ \A i \in 1 .. k - 1 : yielded[c][i] = parse(fmt[c], delivered[c][i]).val

\* C15: if decoding the k-th line of a streamed response fails, the consumer
\* has received the k-1 values decoded before it, the generator ends at that
\* pull with the decoding error, and from then on it stays finished: no
\* later pull reads a line or yields a value.
C15_DecodeErrorTerminal ==
    \A c \in Calls :
        /\ \A k \in 1 .. Len(delivered[c]) :
                DecodeFails(c, k) => FailedLineEnds(c, k)
        /\ afterEnd[c] # "" => pc[c] = "finished"

C15_Witness ==
    \E c \in Calls :
        /\ exc[c] = "JSONDecodeError"
        /\ Len(delivered[c]) = 2
        /\ Len(yielded[c]) = 1
        /\ afterEnd[c] = "StopAsyncIteration"

\* C16: a sequence issues at most one HTTP request over its lifetime: none
\* is issued again after a non-2xx status, a transport error or a decoding
\* error, and a pull made after the sequence has ended issues none.
C16_AtMostOneRequest ==
    \A c \in Calls :
        /\ sent[c].n <= 1
        /\ (exc[c] # "" \/ afterEnd[c] # "") => sent[c].n = 1

C16_Witness ==
    \E c \in Calls :
        /\ exc[c] \in {"HTTPStatusError", "TransportError", "JSONDecodeError"}
        /\ afterEnd[c] = "StopAsyncIteration"
        /\ sent[c].n = 1

\* C17: creating a sequence issues no HTTP request and opens no connection;
\* the request is issued by the first pull and by nothing else, so a
\* sequence that is never pulled never touches the transport.
C17_LazyRequest ==
    \A c \in Calls :
        IF pc[c] \in {"unused", "created"}
        THEN /\ sent[c] = NoRequest
             /\ conn[c] = "none"
             /\ status[c] = 0
             /\ delivered[c] = <<>>
        ELSE /\ sent[c].n = 1
             /\ sent[c].method = ep.method
             /\ sent[c].url = url[c]

C17_Witness ==
    \E c \in Calls :
        /\ pc[c] = "created"
        /\ sent[c].n = 0
        /\ conn[c] = "none"

(***************************************************************************)
(* Properties of calls through one Endpoint whose fmt is reassigned        *)
(* (SpecShared).  FmtAtFirstPull(c) is the handler that ep.fmt and the     *)
(* Requestor's default gave when call c made its first pull; AsAlone(c)    *)
(* says that the call's handler, headers, URL and values are those of the  *)
(* call running on its own with that handler.                              *)
(***************************************************************************)
FmtAtFirstPull(c) ==
    LET f == IF consumer.reassigned \in formats_names /\ c \in consumer.after
             THEN consumer.was ELSE ep.fmt
    IN  IF f = NoFmt THEN requestor.default_fmt ELSE f

AsAlone(c) ==
    LET f == FmtAtFirstPull(c) IN
    /\ fmt[c] = f
    /\ headers[c] = [h \in {"Accept"} |-> f.mime_type]
    /\ sent[c].headers =
            [h \in {"Accept", "Authorization"} |->
                IF h = "Accept" THEN f.mime_type
                ELSE requestor.session.headers["Authorization"]]
    /\ sent[c].url = <<Head(requestor.base_url), "/">> \o ep.path
    /\ Len(yielded[c]) <= Len(handled[c])
    /\ \A i \in 1 .. Len(handled[c]) :
            LET r == parse(f, handled[c][i]) IN
            IF r.ok
            THEN i <= Len(yielded[c]) /\ Decoded(yielded[c][i]) = r.val
            ELSE i = Len(handled[c]) /\ Len(yielded[c]) = i - 1 /\ exc[c] = r.exc

\* C19: one StreamEndpoint can be run to exhaustion, have its fmt reassigned
\* from PGN to NDJSON and be run again on the same Requestor: the assignment
\* makes ep.fmt the NDJSON handler (JSON family, application/x-ndjson), the
\* call made before it decodes every line as PGN text, the call made after
\* it decodes with NDJSON, and the second call reuses nothing of the first.
C19_ReuseAfterReassign ==
    /\ consumer.reassigned = "NDJSON" =>
            /\ consumer.exc = ""
            /\ ep.fmt.cls = "JsonHandler"
            /\ ep.fmt.mime_type = "application/x-ndjson"
    /\ \A c \in Calls :
            (Started(c) /\ consumer.reassigned # "") =>
                IF c \in consumer.after
                THEN fmt[c] = consumer.was /\ yielded[c] = handled[c]
                ELSE fmt[c] = ep.fmt /\ fmt[c] # consumer.was /\ AsAlone(c)

\* C20: when calls on one Requestor are interleaved at their suspension
\* points, the request headers, the URL and the values of each call are
\* those of the call running alone: a call never sends the Accept header
\* of, nor decodes with the handler of, a concurrent call of another format.
C20_CallsIndependent == \A c \in Calls : Started(c) => AsAlone(c)

C20_Witness ==
    /\ \A c \in {1, 2} : pc[c] \in {"awaiting_line", "yield_line"}
    /\ fmt[1] = PGN
    /\ fmt[2] = JSON
    /\ sent[1].headers["Accept"] # sent[2].headers["Accept"]
    /\ Len(yielded[1]) = 2
    /\ Len(yielded[2]) = 1

HandlerIntact(h) == h \in Handlers /\ h.headers = [k \in {"Accept"} |-> h.mime_type]

\* C28: executing calls never modifies shared state: whatever the calls do
\* (complete, fail, be abandoned), the Requestor's session, base_url and
\* default_fmt, the Endpoint's five fields, every handler's mime_type and
\* headers mapping and the session's default headers, with the
\* Authorization: Bearer <token> of its construction, stay as they were.
C28_SharedStateUnchanged ==
    [][/\ requestor' = requestor
       /\ requestor'.session.headers =
                [k \in {"Authorization"} |-> "Bearer " \o requestor'.session.token]
       /\ consumer' = consumer => ep' = ep
       /\ HandlerIntact(requestor'.default_fmt)
       /\ ep'.fmt # NoFmt => HandlerIntact(ep'.fmt)
       /\ \A c \in Calls : Started(c)' => HandlerIntact(fmt'[c])]_vars

C28_Witness ==
    /\ pc[1] = "finished" /\ exc[1] = "HTTPStatusError"
    /\ pc[2] = "yield_line" /\ stopped[2] /\ Len(yielded[2]) = 1
    /\ requestor.session.headers = [k \in {"Authorization"} |-> "Bearer token"]
    /\ sent[2].headers["Accept"] = PGN.mime_type

OpenConnections == {c \in Calls : conn[c] = "open"}

PulledNotEnded == {c \in Calls : ep.stream /\ Started(c) /\ pc[c] # "finished"}

ReceivedNotEnded == {c \in Calls : ep.stream /\ pc[c] \in {"awaiting_line", "yield_line"}}

SingleValueReleased ==
    \A c \in Calls :
        ~ep.stream =>
            /\ conn[c] # "open"
            /\ pc[c] = "yield_single" => (conn[c] = "closed" /\ Len(yielded[c]) = 1)

AtFirstPull(c) ==
    IF consumer.reassigned # "" /\ c \in consumer.after THEN consumer.old ELSE ep

\* C27: the Endpoint's path, method, stream flag and fmt are read when the
\* first element is pulled, not when Requestor.request is called: a field
\* assigned between creating the sequence and its first pull is the one the
\* sequence uses, and an assignment after the first pull changes neither
\* the request nor the handler of the remaining lines of that sequence.
C27_FieldsReadAtFirstPull ==
    \A c \in Calls :
        Started(c) =>
            LET e == AtFirstPull(c)
                f == FmtOr(e.fmt, requestor.default_fmt) IN
            /\ fmt[c] = f
            /\ sent[c].n = 1
            /\ sent[c].method = e.method
            /\ sent[c].url = urljoin(requestor.base_url, e.path)
            /\ sent[c].headers["Accept"] = f.mime_type
            /\ pc[c] \in {"awaiting_stream", "awaiting_line", "yield_line"} => e.stream
            /\ pc[c] \in {"awaiting_response", "yield_single"} => ~e.stream
            /\ e.stream =>
                    /\ Len(yielded[c]) <= Len(handled[c])
                    /\ \A i \in 1 .. Len(handled[c]) :
                            LET r == handle(f, handled[c][i], Absent, Absent) IN
                            IF r.ok THEN i <= Len(yielded[c]) /\ yielded[c][i] = r.val
                            ELSE i = Len(handled[c]) /\ Len(yielded[c]) = i - 1
                                    /\ exc[c] = r.exc

C27_Witness ==
    /\ consumer.reassigned = "fmt"
    /\ 1 \in consumer.after
    /\ consumer.old.fmt = PGN /\ ep.fmt = JSON /\ ep.stream
    /\ consumer.linesBefore[1] = 0
    /\ yielded[1] = <<MoveLine, MoveLine>>

(***************************************************************************)
(* Properties of direct handle calls (SpecHandle).                         *)
(***************************************************************************)
OneWayAtMost == hcall.pos = Absent \/ hcall.kw = Absent

\* C9: for the PGN handler, handle(payload, f) returns parse(payload) for
\* every converter f, passed positionally or by keyword, as does
\* handle(payload) without a converter.
C9_PgnConverterInvariant ==
    (/\ hcall.called
     /\ hcall.h = PGN
     /\ OneWayAtMost
     /\ hcall.pos # None
     /\ hcall.kw # None) =>
        hresult = parse(PGN, hcall.content)

\* C10 as stated: for a non-PGN handler and a payload valid for it,
\* handle(payload, converter=None) and handle(payload) both return
\* parse(payload).
C10_NoneConverterIsIdentity ==
    (/\ hcall.called
     /\ hcall.h # PGN
     /\ parse(hcall.h, hcall.content).ok
     /\ hcall.pos = Absent
     /\ hcall.kw \in {Absent, None}) =>
        hresult = parse(hcall.h, hcall.content)

\* C10 as amended: for a non-PGN handler and a payload valid for it,
\* handle(payload) with the converter omitted returns parse(payload), and
\* handle(payload, None) or handle(payload, converter=None) raises TypeError.
C10_OmittedConverterIsIdentity ==
    (/\ hcall.called
     /\ hcall.h # PGN
     /\ parse(hcall.h, hcall.content).ok
     /\ OneWayAtMost) =>
        /\ (hcall.pos = Absent /\ hcall.kw = Absent) =>
                hresult = parse(hcall.h, hcall.content)
        /\ (hcall.pos = None \/ hcall.kw = None) => hresult = Raise("TypeError")

C10_Witness ==
    /\ hcall.called
    /\ hcall.h = JSON
    /\ hcall.content = ObjectLine
    /\ hcall.pos = Absent
    /\ hcall.kw = Absent
    /\ hresult.ok
    /\ hresult.val.t = "dict"

(***************************************************************************)
(* Properties of the construction of a Client (SpecClient).                *)
(***************************************************************************)
Made == {o \in OwnerNames : objs[o].made}

ExpectedBaseUrl == IF cargs.base_url = <<>> THEN API_URL ELSE cargs.base_url

\* C18 (as stated): a Client has exactly one Requestor instance, and the
\* Client and every namespace it creates use that same instance.
C18_OneSharedRequestor ==
    /\ Len(heap) <= 1
    /\ \A o1 \in Made, o2 \in Made : objs[o1].r = objs[o2].r

\* C18 (amended): the Client and each namespace it creates hold a Requestor
\* of their own, so a fully constructed Client has twelve; all of them wrap
\* the one session given to the Client and have the same base URL (the
\* given one, or API_URL when none is given) and the default format JSON.
C18_RequestorPerNamespace ==
    /\ Len(heap) = Cardinality(Made)
    /\ \A o1 \in Made, o2 \in Made : o1 # o2 => objs[o1].r # objs[o2].r
    /\ \A o \in Made :
            /\ objs[o].r \in DOMAIN heap
            /\ heap[objs[o].r].session = cargs.session
            /\ heap[objs[o].r].base_url = ExpectedBaseUrl
            /\ heap[objs[o].r].default_fmt = JSON

C18_Witness ==
    /\ Made = OwnerNames
    /\ Len(heap) = 12
    /\ cargs.base_url = <<"https://example.org", "/">>

\* C21: a client method that takes as_pgn, called without it, uses the
\* client's pgn_as_default: PGN when that is True, a JSON-family format
\* otherwise; an as_pgn of True or False passed to it decides by itself.
C21_PgnAsDefault ==
    mcall.called =>
        LET d == objs[mcall.owner].pgn_as_default IN
        /\ mcall.fmt \in {"PGN"} \cup JsonFamilyNames
        /\ mcall.as_pgn = "omitted" => (mcall.fmt = "PGN" <=> d = "True")
        /\ mcall.as_pgn = "True" => mcall.fmt = "PGN"
        /\ mcall.as_pgn = "False" => mcall.fmt # "PGN"

ClaimedNames == {"TEXT", "JSON", "NDJSON", "LIJSON", "PGN"}

ClaimedMimeType(name) ==
    CASE name = "JSON" -> "application/json"
      [] name = "NDJSON" -> "application/x-ndjson"
      [] name = "LIJSON" -> "application/vnd.lichess.v3+json"

\* C26: the formats module defines a constant for each of TEXT, JSON, NDJSON,
\* LIJSON and PGN, the three JSON-family ones being JsonHandlers that differ
\* only in mime type, so that the Endpoint a client method builds always
\* resolves to a defined handler.
C26_FiveHandlersDefined ==
    /\ \A name \in ClaimedNames : name \in formats_names
    /\ \A name \in JsonFamilyNames \cap formats_names :
            formats_attr(name) = FormatHandler_init("JsonHandler", ClaimedMimeType(name))
    /\ mcall.called => (mcall.fmt \in formats_names /\ mcall.exc = "")

(***************************************************************************)
(* Properties of parsing a serialized value (SpecRoundTrip).               *)
(***************************************************************************)
\* C22: for each JSON-family handler (JSON, NDJSON, LIJSON) and every JSON
\* value x, parse(serialize(x)) returns x, whichever handler is used.
C22_ParseInvertsSerialize ==
    pcall.called => (presult.ok /\ presult.val = pcall.x)

(***************************************************************************)
(* Properties of the call operator (SpecCallOp).                           *)
(***************************************************************************)
\* C23: awaiting the call of an Endpoint or PostEndpoint returns the first
\* and only element of requestor.request(ep, ...) (and raises what pulling
\* it raises); the call of a StreamEndpoint or StreamPostEndpoint returns,
\* without a request being made, the very sequence requestor.request(ep, ...)
\* gives, so it yields the same values in the same order.
C23_CallShapesAgree ==
    op.kind # "none" =>
        LET c == op.c IN
        /\ c \in Calls /\ pc[c] # "unused"
        /\ \A d \in Calls \ {c} : pc[d] = "unused"
        /\ op.cls \in StreamClasses =>
                /\ op.kind = "generator"
                /\ pc[c] = "created" => sent[c].n = 0 /\ conn[c] = "none"
        /\ op.cls \notin StreamClasses =>
                /\ op.kind \in {"pending", "value", "raise"}
                /\ op.kind = "value" =>
                        /\ yielded[c] # <<>> /\ op.val = yielded[c][1]
                        /\ ep.stream = ClassStream(op.cls) =>
                                Len(yielded[c]) = 1 /\ pc[c] \in {"yield_single", "finished"}
                /\ op.kind = "raise" => yielded[c] = <<>> /\ op.exc = exc[c] /\ op.exc # ""

C23_Witness ==
    /\ op.cls = "PostEndpoint" /\ ~ep.stream /\ op.kind = "value"
    /\ op.val # PyNone /\ op.val = yielded[op.c][1]

\* C30: the call shape follows the descriptor's class, not its stream flag:
\* the call of a plain Endpoint or PostEndpoint made with stream=True pulls
\* only the first decoded line and then abandons the sequence with its
\* streamed connection still open, and raises StopAsyncIteration instead of
\* returning a value when the 2xx response body has no lines.
C30_ShapeFollowsClass ==
    (op.kind # "none" /\ op.cls \notin StreamClasses /\ ep.stream) =>
        LET c == op.c IN
        /\ op.kind \in {"pending", "value", "raise"}
        /\ Len(delivered[c]) <= 1
        /\ op.kind = "value" =>
                /\ Len(delivered[c]) = 1 /\ yielded[c] = <<op.val>>
                /\ op.val = handle(fmt[c], delivered[c][1], Absent, Absent).val
                /\ stopped[c]
                /\ \/ pc[c] = "yield_line" /\ conn[c] = "open"
                   \/ pc[c] = "finished" /\ exc[c] = "GeneratorExit"
        /\ (op.kind # "pending" /\ Success(c) /\ delivered[c] = <<>>
                /\ exc[c] = "StopAsyncIteration") =>
                (op.kind = "raise" /\ op.exc = "StopAsyncIteration")

C30_Witness ==
    /\ op.cls = "Endpoint" /\ ep.stream /\ op.kind = "value"
    /\ pc[op.c] = "yield_line" /\ conn[op.c] = "open" /\ stopped[op.c]
    /\ op.val = MoveLine

(***************************************************************************)
(* Properties of Board.seek (SpecSeek).                                    *)
(***************************************************************************)
\* C24: Board.seek issues one streaming POST to api/board/seek with the read
\* timeout disabled and pulls lines until the server ends the stream; only
\* then does it return, and it does not raise before that on a 2xx response.
C24_SeekRunsToStreamEnd ==
    seek.called =>
        /\ sent[1].n = 1 /\ sent[1].method = "POST"
        /\ EndsWith(sent[1].url, <<"api", "/", "board", "/", "seek">>)
        /\ seek.timeout = "NO_READ_TIMEOUT"
        /\ seek.state \in {"returned", "raised"} =>
                /\ pc[1] = "finished"
                /\ Success(1) => seek.state = "returned" /\ exc[1] = "StopAsyncIteration"

(***************************************************************************)
(* Properties of Model.convert (SpecConvert).                              *)
(***************************************************************************)
Registered(r) == DOMAIN conv.before[r] \cap conversions(conv.cls)

Occurrences(log, e) == Cardinality({i \in DOMAIN log : log[i] = e})

ArgRefs == {conv.arg.refs[i] : i \in DOMAIN conv.arg.refs}

\* C25: Model.convert applies each registered converter exactly once to
\* exactly the fields that are present in the document and registered on the
\* model type, leaves every other field unchanged, maps a list input
\* element by element, and works on a copy: the document the caller passed
\* in is not modified.
C25_ConvertOnCopy ==
    conv.called =>
        /\ Len(conv.result.refs) = Len(conv.arg.refs)
        /\ conv.arg.kind \in {"list", "tuple"} <=> conv.result.kind = "list"
        /\ \A i \in DOMAIN conv.arg.refs :
                LET r == conv.arg.refs[i]
                    out == conv.after[conv.result.refs[i]] IN
                /\ DOMAIN out = DOMAIN conv.before[r]
                /\ \A k \in DOMAIN out :
                        /\ out[k] = IF k \in Registered(r)
                                    THEN datetime_from_millis(conv.before[r][k])
                                    ELSE conv.before[r][k]
                        /\ Occurrences(conv.log, <<r, k>>)
                                = IF k \in Registered(r) THEN 1 ELSE 0
        /\ Len(conv.log) = Cardinality({<<r, k>> \in ArgRefs \X DocFields :
                                            k \in Registered(r)})
        /\ \A r \in DOMAIN conv.before : conv.after[r] = conv.before[r]

====
